---- MODULE Spec2Model ----
(***************************************************************************)
(* Swing-structure detection engine of src/lib/indicators/custom-indicator.ts *)
(* pivotHigh / pivotLow, calculateSMA, calculateSwingZone and               *)
(* calculateSwingRays.  Array positions are 0-based as in the source; the   *)
(* operator At reads a 0-based position of a TLA+ sequence.                 *)
(***************************************************************************)
EXTENDS Integers, Sequences, FiniteSets, TLC

(* ---------------------------------------------------------------------- *)
(* Bounds of the checked instances                                         *)
(* ---------------------------------------------------------------------- *)
MaxLen == 4
MaxBars == 3
MaxLongLen == 7
MaxPrice == 3
MaxValue == 3
MaxWindow == 2
MaxSensitivity == 2
MaxCap == 2
MaxCloses == 4
MaxClose == 4
MaxMALength == 3
MaxCalls == 3
MaxLevel == 2

(* ---------------------------------------------------------------------- *)
(* JavaScript values                                                       *)
(* ---------------------------------------------------------------------- *)
\* The number NaN.  Prices of the model are naturals, NaN is kept apart.
NaN == -1

isNaN(x) == x = NaN

\* a >= b, a <= b, a > b, a < b on numbers: false as soon as one side is NaN
Geq(a, b) == ~isNaN(a) /\ ~isNaN(b) /\ a >= b
Leq(a, b) == ~isNaN(a) /\ ~isNaN(b) /\ a <= b
Gt(a, b) == ~isNaN(a) /\ ~isNaN(b) /\ a > b
Lt(a, b) == ~isNaN(a) /\ ~isNaN(b) /\ a < b

\* arr[k] for a 0-based k; a read outside the array gives undefined, which
\* behaves as NaN in every comparison and under isNaN
At(arr, k) == IF 0 <= k /\ k < Len(arr) THEN arr[k + 1] ELSE NaN

\* arr.slice(start): a negative start counts from the end, -0 is 0
Slice(arr, start) ==
    LET n == Len(arr)
        from == IF start < 0 THEN (IF n + start < 0 THEN 0 ELSE n + start)
                ELSE (IF start > n THEN n ELSE start)
    IN  SubSeq(arr, from + 1, n)

\* settings.key with a destructuring default: the default applies when the
\* key is absent (undefined)
Get(obj, key, default) == IF key \in DOMAIN obj THEN obj[key] ELSE default

\* settings.key || default: the default applies when the key is absent or
\* the value is falsy (0, NaN)
GetOr(obj, key, default) ==
    IF key \in DOMAIN obj /\ obj[key] # 0 /\ ~isNaN(obj[key]) THEN obj[key] ELSE default

(* ---------------------------------------------------------------------- *)
(* pivotHigh / pivotLow                                                    *)
(* ---------------------------------------------------------------------- *)
pivotHigh_OffByOne(highs, leftBars, rightBars, index) ==
    IF index < leftBars \/ index > Len(highs) - rightBars THEN NaN
    ELSE LET centerHigh == At(highs, index) IN
         IF \E j \in (index - leftBars)..(index - 1) : Geq(At(highs, j), centerHigh) THEN NaN
         ELSE IF \E j \in (index + 1)..(index + rightBars) : Geq(At(highs, j), centerHigh) THEN NaN
         ELSE centerHigh

pivotHigh_AllowTies(highs, leftBars, rightBars, index) ==
    IF index < leftBars \/ index >= Len(highs) - rightBars THEN NaN
    ELSE LET centerHigh == At(highs, index) IN
         IF \E j \in (index - leftBars)..(index - 1) : Gt(At(highs, j), centerHigh) THEN NaN
         ELSE IF \E j \in (index + 1)..(index + rightBars) : Gt(At(highs, j), centerHigh) THEN NaN
         ELSE centerHigh

pivotHigh(highs, leftBars, rightBars, index) ==
    IF index < leftBars \/ index >= Len(highs) - rightBars THEN NaN
    ELSE LET centerHigh == At(highs, index) IN
         IF \E j \in (index - leftBars)..(index - 1) : Geq(At(highs, j), centerHigh) THEN NaN
         ELSE IF \E j \in (index + 1)..(index + rightBars) : Geq(At(highs, j), centerHigh) THEN NaN
         ELSE centerHigh

pivotLow(lows, leftBars, rightBars, index) ==
    IF index < leftBars \/ index >= Len(lows) - rightBars THEN NaN
    ELSE LET centerLow == At(lows, index) IN
         IF \E j \in (index - leftBars)..(index - 1) : Leq(At(lows, j), centerLow) THEN NaN
         ELSE IF \E j \in (index + 1)..(index + rightBars) : Leq(At(lows, j), centerLow) THEN NaN
         ELSE centerLow

\* the positions from first to last up to the first one that stops the
\* loop, all of them when none does
ReadUpTo(first, last, stops) ==
    IF stops = {} THEN first..last
    ELSE first..(CHOOSE m \in stops : \A j \in stops : m <= j)

\* the positions of highs that a call of pivotHigh reads
pivotHighReads(highs, leftBars, rightBars, index) ==
    IF index < leftBars \/ index >= Len(highs) - rightBars THEN {}
    ELSE LET centerHigh == At(highs, index)
             leftStops == {j \in (index - leftBars)..(index - 1) : Geq(At(highs, j), centerHigh)}
             rightStops == {j \in (index + 1)..(index + rightBars) : Geq(At(highs, j), centerHigh)}
         IN  {index} \cup ReadUpTo(index - leftBars, index - 1, leftStops)
                     \cup (IF leftStops # {} THEN {}
                           ELSE ReadUpTo(index + 1, index + rightBars, rightStops))

\* the positions of lows that a call of pivotLow reads
pivotLowReads(lows, leftBars, rightBars, index) ==
    IF index < leftBars \/ index >= Len(lows) - rightBars THEN {}
    ELSE LET centerLow == At(lows, index)
             leftStops == {j \in (index - leftBars)..(index - 1) : Leq(At(lows, j), centerLow)}
             rightStops == {j \in (index + 1)..(index + rightBars) : Leq(At(lows, j), centerLow)}
         IN  {index} \cup ReadUpTo(index - leftBars, index - 1, leftStops)
                     \cup (IF leftStops # {} THEN {}
                           ELSE ReadUpTo(index + 1, index + rightBars, rightStops))

(* ---------------------------------------------------------------------- *)
(* calculateSMA                                                            *)
(* ---------------------------------------------------------------------- *)
\* A moving-average value is the quotient n/d of two integers, kept as the
\* pair; the quotient 0/0 is NaN.
Quot(n, d) == [n |-> n, d |-> d]

NaNQ == Quot(0, 0)

isNaNQ(q) == q.d = 0

\* a > b and a < b on quotients with d >= 0: false as soon as one side is NaN
GtQ(a, b) == ~isNaNQ(a) /\ ~isNaNQ(b) /\ a.n * b.d > b.n * a.d
LtQ(a, b) == ~isNaNQ(a) /\ ~isNaNQ(b) /\ a.n * b.d < b.n * a.d

\* arr[k] of an array of quotients; undefined outside the array
AtQ(arr, k) == IF 0 <= k /\ k < Len(arr) THEN arr[k + 1] ELSE NaNQ

RECURSIVE Reduce(_)
\* arr.reduce((a, b) => a + b, 0)
Reduce(arr) == IF arr = <<>> THEN 0 ELSE Head(arr) + Reduce(Tail(arr))

\* arr.slice(from, to) for 0 <= from
Slice2(arr, from, to) == SubSeq(arr, from + 1, IF to > Len(arr) THEN Len(arr) ELSE to)

calculateSMA_Cumulative(data, period) ==
    [k \in 1..Len(data) |->
        LET j == k - 1 IN
        IF j < period - 1 THEN NaNQ
        ELSE Quot(Reduce(Slice2(data, 0, j + 1)), j + 1)]

calculateSMA(data, period) ==
    [k \in 1..Len(data) |->
        LET j == k - 1 IN
        IF j < period - 1 THEN NaNQ
        ELSE Quot(Reduce(Slice2(data, j - period + 1, j + 1)), period)]

(* ---------------------------------------------------------------------- *)
(* calculateSwingZone                                                      *)
(* ---------------------------------------------------------------------- *)
Column(data, field) == [k \in 1..Len(data) |-> data[k][field]]

Timestamps_Milliseconds(data) == [k \in 1..Len(data) |-> data[k].timestamp]

\* Math.floor(new Date(d.timestamp).getTime() / 1000); a timestamp of the
\* model is the instant it denotes, in milliseconds since the epoch
Timestamps(data) == [k \in 1..Len(data) |-> data[k].timestamp \div 1000]

SwingPoint(barIndex, price, type, time) ==
    [barIndex |-> barIndex, price |-> price, type |-> type, time |-> time]

\* first scan index of the loop, and the loop condition
ScanStart(sensitivity) == sensitivity * 2

ScanContinues_ToTheEnd(idx, length, sensitivity) == idx < length

ScanContinues(idx, length, sensitivity) == idx < length - sensitivity

ScanSide_NewestFirst(points, detected, enabled, pivotBarIndex, pivotValue, price, type, time) ==
    IF enabled /\ pivotBarIndex \notin detected /\ ~isNaN(pivotValue)
    THEN [points |-> <<SwingPoint(pivotBarIndex, price, type, time)>> \o points,
          detected |-> detected \cup {pivotBarIndex}]
    ELSE [points |-> points, detected |-> detected]

ScanSide_IgnoresSwitch(points, detected, enabled, pivotBarIndex, pivotValue, price, type, time) ==
    IF pivotBarIndex \notin detected /\ ~isNaN(pivotValue)
    THEN [points |-> Append(points, SwingPoint(pivotBarIndex, price, type, time)),
          detected |-> detected \cup {pivotBarIndex}]
    ELSE [points |-> points, detected |-> detected]

\* one side of one loop iteration: the list and the detected set after it
ScanSide(points, detected, enabled, pivotBarIndex, pivotValue, price, type, time) ==
    IF enabled /\ pivotBarIndex \notin detected /\ ~isNaN(pivotValue)
    THEN [points |-> Append(points, SwingPoint(pivotBarIndex, price, type, time)),
          detected |-> detected \cup {pivotBarIndex}]
    ELSE [points |-> points, detected |-> detected]

ZoneIteration_NoLag(st, data, sensitivity, showHighs, showLows, idx) ==
    LET pivotBarIndex == idx
        pivotHighValue == pivotHigh(Column(data, "high"), sensitivity, sensitivity, pivotBarIndex)
        pivotLowValue == pivotLow(Column(data, "low"), sensitivity, sensitivity, pivotBarIndex)
        time == At(Timestamps(data), pivotBarIndex)
        hi == ScanSide(st.swingHighs, st.detectedHighIndices, showHighs,
                       pivotBarIndex, pivotHighValue, pivotHighValue, "high", time)
        lo == ScanSide(st.swingLows, st.detectedLowIndices, showLows,
                       pivotBarIndex, pivotLowValue, pivotLowValue, "low", time)
    IN  [swingHighs |-> hi.points, detectedHighIndices |-> hi.detected,
         swingLows |-> lo.points, detectedLowIndices |-> lo.detected]

\* body of the scan loop of calculateSwingZone at scan index idx
ZoneIteration(st, data, sensitivity, showHighs, showLows, idx) ==
    LET pivotBarIndex == idx - sensitivity
        pivotHighValue == pivotHigh(Column(data, "high"), sensitivity, sensitivity, pivotBarIndex)
        pivotLowValue == pivotLow(Column(data, "low"), sensitivity, sensitivity, pivotBarIndex)
        time == At(Timestamps(data), pivotBarIndex)
        hi == ScanSide(st.swingHighs, st.detectedHighIndices, showHighs,
                       pivotBarIndex, pivotHighValue, pivotHighValue, "high", time)
        lo == ScanSide(st.swingLows, st.detectedLowIndices, showLows,
                       pivotBarIndex, pivotLowValue, pivotLowValue, "low", time)
    IN  [swingHighs |-> hi.points, detectedHighIndices |-> hi.detected,
         swingLows |-> lo.points, detectedLowIndices |-> lo.detected]

LimitZone_KeepsOldest(points, config) == Slice2(points, 0, GetOr(config, "maxSwingPoints", 2))

\* the recency cap of calculateSwingZone
LimitZone(points, config) == Slice(points, 0 - GetOr(config, "maxSwingPoints", 2))

MarketRegime(detectedRegime) ==
    [regime |-> detectedRegime,
     recommendation |-> CASE detectedRegime = "Bull Trend" -> "Trade: Long Break + Retest"
                          [] detectedRegime = "Bear Trend" -> "Trade: Short Break + Retest"
                          [] OTHER -> "Trade: Rejection (Fade)",
     color |-> CASE detectedRegime = "Bull Trend" -> "#00ff00"
                 [] detectedRegime = "Bear Trend" -> "#ff0000"
                 [] OTHER -> "#808080"]

DetectRegime_IgnoresPrice(closes, fastMA, slowMA, currentIndex, prevIndex) ==
    LET fastMARising == GtQ(AtQ(fastMA, currentIndex), AtQ(fastMA, prevIndex))
        slowMARising == GtQ(AtQ(slowMA, currentIndex), AtQ(slowMA, prevIndex))
        fastMAFalling == LtQ(AtQ(fastMA, currentIndex), AtQ(fastMA, prevIndex))
        slowMAFalling == LtQ(AtQ(slowMA, currentIndex), AtQ(slowMA, prevIndex))
    IN  IF /\ GtQ(AtQ(fastMA, currentIndex), AtQ(slowMA, currentIndex))
           /\ fastMARising /\ slowMARising
        THEN "Bull Trend"
        ELSE IF /\ LtQ(AtQ(fastMA, currentIndex), AtQ(slowMA, currentIndex))
                /\ fastMAFalling /\ slowMAFalling
        THEN "Bear Trend"
        ELSE "Range"

\* the three-way decision on the moving averages at the two last positions
DetectRegime(closes, fastMA, slowMA, currentIndex, prevIndex) ==
    LET fastMARising == GtQ(AtQ(fastMA, currentIndex), AtQ(fastMA, prevIndex))
        slowMARising == GtQ(AtQ(slowMA, currentIndex), AtQ(slowMA, prevIndex))
        fastMAFalling == LtQ(AtQ(fastMA, currentIndex), AtQ(fastMA, prevIndex))
        slowMAFalling == LtQ(AtQ(slowMA, currentIndex), AtQ(slowMA, prevIndex))
        price == Quot(At(closes, currentIndex), 1)
    IN  IF /\ GtQ(AtQ(fastMA, currentIndex), AtQ(slowMA, currentIndex))
           /\ fastMARising /\ slowMARising
           /\ GtQ(price, AtQ(fastMA, currentIndex))
        THEN "Bull Trend"
        ELSE IF /\ LtQ(AtQ(fastMA, currentIndex), AtQ(slowMA, currentIndex))
                /\ fastMAFalling /\ slowMAFalling
                /\ LtQ(price, AtQ(fastMA, currentIndex))
        THEN "Bear Trend"
        ELSE "Range"

\* whether the classification is entered once the moving averages are known
RegimeGuard(fastMA, slowMA, currentIndex, prevIndex) ==
    ~isNaNQ(AtQ(fastMA, currentIndex)) /\ ~isNaNQ(AtQ(slowMA, currentIndex)) /\ prevIndex >= 0

Regime_DefaultsToRange(data, config) ==
    LET showRegime == Get(config, "showRegime", TRUE)
        fastMALength == Get(config, "fastMALength", 21)
        slowMALength == Get(config, "slowMALength", 50)
        closes == Column(data, "close")
        fastMA == calculateSMA(closes, fastMALength)
        slowMA == calculateSMA(closes, slowMALength)
        currentIndex == Len(closes) - 1
        prevIndex == currentIndex - 1
    IN  IF ~showRegime THEN <<>>
        ELSE IF Len(closes) >= slowMALength /\ RegimeGuard(fastMA, slowMA, currentIndex, prevIndex)
        THEN <<MarketRegime(DetectRegime(closes, fastMA, slowMA, currentIndex, prevIndex))>>
        ELSE <<MarketRegime("Range")>>

Regime_WaitsForConfirmation(data, config) ==
    LET showRegime == Get(config, "showRegime", TRUE)
        fastMALength == Get(config, "fastMALength", 21)
        slowMALength == Get(config, "slowMALength", 50)
        regimeConfirmationBars == Get(config, "regimeConfirmationBars", 2)
        closes == Column(data, "close")
    IN  IF showRegime /\ Len(closes) >= slowMALength + regimeConfirmationBars
        THEN LET fastMA == calculateSMA(closes, fastMALength)
                 slowMA == calculateSMA(closes, slowMALength)
                 currentIndex == Len(closes) - 1
                 prevIndex == currentIndex - 1
             IN  IF RegimeGuard(fastMA, slowMA, currentIndex, prevIndex)
                 THEN <<MarketRegime(DetectRegime(closes, fastMA, slowMA, currentIndex, prevIndex))>>
                 ELSE <<>>
        ELSE <<>>

Regime_IgnoresSwitch(data, config) ==
    LET fastMALength == Get(config, "fastMALength", 21)
        slowMALength == Get(config, "slowMALength", 50)
        closes == Column(data, "close")
    IN  IF Len(closes) >= slowMALength
        THEN LET fastMA == calculateSMA(closes, fastMALength)
                 slowMA == calculateSMA(closes, slowMALength)
                 currentIndex == Len(closes) - 1
                 prevIndex == currentIndex - 1
             IN  IF RegimeGuard(fastMA, slowMA, currentIndex, prevIndex)
                 THEN <<MarketRegime(DetectRegime(closes, fastMA, slowMA, currentIndex, prevIndex))>>
                 ELSE <<>>
        ELSE <<>>

\* the regime of the result: <<>> stands for undefined, <<r>> for the
\* MarketRegime object r
Regime(data, config) ==
    LET showRegime == Get(config, "showRegime", TRUE)
        fastMALength == Get(config, "fastMALength", 21)
        slowMALength == Get(config, "slowMALength", 50)
        closes == Column(data, "close")
    IN  IF showRegime /\ Len(closes) >= slowMALength
        THEN LET fastMA == calculateSMA(closes, fastMALength)
                 slowMA == calculateSMA(closes, slowMALength)
                 currentIndex == Len(closes) - 1
                 prevIndex == currentIndex - 1
             IN  IF RegimeGuard(fastMA, slowMA, currentIndex, prevIndex)
                 THEN <<MarketRegime(DetectRegime(closes, fastMA, slowMA, currentIndex, prevIndex))>>
                 ELSE <<>>
        ELSE <<>>

RECURSIVE ZoneLoop(_, _, _, _, _, _)
\* the scan loop of calculateSwingZone from scan index idx on (an
\* iteration that finds no pivot leaves the lists and sets as they are; the
\* comparison has TLC evaluate each iteration before the next)
ZoneLoop(st, data, sensitivity, showHighs, showLows, idx) ==
    IF ScanContinues(idx, Len(data), sensitivity)
    THEN LET after == ZoneIteration(st, data, sensitivity, showHighs, showLows, idx)
         IN  IF after = st
             THEN ZoneLoop(st, data, sensitivity, showHighs, showLows, idx + 1)
             ELSE ZoneLoop(after, data, sensitivity, showHighs, showLows, idx + 1)
    ELSE st

RawZone_SharedWindow(data, config) ==
    LET empty == [swingHighs |-> <<>>, detectedHighIndices |-> {},
                  swingLows |-> <<>>, detectedLowIndices |-> {}]
        sensitivity == Get(config, "raySensitivity", Get(config, "sensitivity", 2))
    IN  ZoneLoop(empty, data, sensitivity, Get(config, "showHighs", TRUE),
                 Get(config, "showLows", TRUE), ScanStart(sensitivity))

\* the lists of calculateSwingZone before the recency cap
RawZone(data, config) ==
    LET empty == [swingHighs |-> <<>>, detectedHighIndices |-> {},
                  swingLows |-> <<>>, detectedLowIndices |-> {}]
        sensitivity == Get(config, "sensitivity", 2)
    IN  ZoneLoop(empty, data, sensitivity, Get(config, "showHighs", TRUE),
                 Get(config, "showLows", TRUE), ScanStart(sensitivity))

\* a whole call of calculateSwingZone: the object it returns
calculateSwingZone_PartialWindows(data, config) ==
    LET sensitivity == Get(config, "sensitivity", 2)
        highs == Column(data, "high")
        lows == Column(data, "low")
        bars == [n \in 1..Len(data) |-> n - 1]
        window(k) == {j \in (k - sensitivity)..(k + sensitivity) : j # k /\ 0 <= j /\ j < Len(data)}
        IsHigh(k) == Get(config, "showHighs", TRUE) /\ \A j \in window(k) : highs[j + 1] < highs[k + 1]
        IsLow(k) == Get(config, "showLows", TRUE) /\ \A j \in window(k) : lows[j + 1] > lows[k + 1]
        Points(found, arr, type) ==
            [n \in 1..Len(found) |->
                SwingPoint(found[n], arr[found[n] + 1], type, At(Timestamps(data), found[n]))]
    IN  [swingHighs |-> LimitZone(Points(SelectSeq(bars, IsHigh), highs, "high"), config),
         swingLows |-> LimitZone(Points(SelectSeq(bars, IsLow), lows, "low"), config),
         regime |-> Regime(data, config)]

calculateSwingZone_OtherDefaults(data, config) ==
    LET filled == [sensitivity |-> 3, showHighs |-> TRUE, showLows |-> TRUE,
                   showRegime |-> TRUE, fastMALength |-> 20, slowMALength |-> 50] @@ config
        raw == RawZone(data, filled)
    IN  [swingHighs |-> LimitZone(raw.swingHighs, config),
         swingLows |-> LimitZone(raw.swingLows, config),
         regime |-> Regime(data, filled)]

calculateSwingZone(data, config) ==
    LET raw == RawZone(data, config)
    IN  [swingHighs |-> LimitZone(raw.swingHighs, config),
         swingLows |-> LimitZone(raw.swingLows, config),
         regime |-> Regime(data, config)]

(* ---------------------------------------------------------------------- *)
(* calculateSwingRays                                                      *)
(* ---------------------------------------------------------------------- *)
RayIteration_PriceIsExtreme(st, data, raySensitivity, idx) ==
    LET pivotBarIndex == idx - raySensitivity
        pivotHighValue == pivotHigh(Column(data, "high"), raySensitivity, raySensitivity, pivotBarIndex)
        pivotLowValue == pivotLow(Column(data, "low"), raySensitivity, raySensitivity, pivotBarIndex)
        time == At(Timestamps(data), pivotBarIndex)
        hi == ScanSide(st.rayHighs, st.detectedRayHighIndices, TRUE,
                       pivotBarIndex, pivotHighValue, pivotHighValue, "high", time)
        lo == ScanSide(st.rayLows, st.detectedRayLowIndices, TRUE,
                       pivotBarIndex, pivotLowValue, pivotLowValue, "low", time)
    IN  [rayHighs |-> hi.points, detectedRayHighIndices |-> hi.detected,
         rayLows |-> lo.points, detectedRayLowIndices |-> lo.detected]

\* body of the scan loop of calculateSwingRays at scan index idx
RayIteration(st, data, raySensitivity, idx) ==
    LET pivotBarIndex == idx - raySensitivity
        pivotHighValue == pivotHigh(Column(data, "high"), raySensitivity, raySensitivity, pivotBarIndex)
        pivotLowValue == pivotLow(Column(data, "low"), raySensitivity, raySensitivity, pivotBarIndex)
        swingClose == At(Column(data, "close"), pivotBarIndex)
        time == At(Timestamps(data), pivotBarIndex)
        hi == ScanSide(st.rayHighs, st.detectedRayHighIndices, TRUE,
                       pivotBarIndex, pivotHighValue, swingClose, "high", time)
        lo == ScanSide(st.rayLows, st.detectedRayLowIndices, TRUE,
                       pivotBarIndex, pivotLowValue, swingClose, "low", time)
    IN  [rayHighs |-> hi.points, detectedRayHighIndices |-> hi.detected,
         rayLows |-> lo.points, detectedRayLowIndices |-> lo.detected]

RECURSIVE RayLoop(_, _, _, _)
\* the scan loop of calculateSwingRays from scan index idx on (an
\* iteration that finds no pivot leaves the lists and sets as they are)
RayLoop(st, data, raySensitivity, idx) ==
    IF ScanContinues(idx, Len(data), raySensitivity)
    THEN LET after == RayIteration(st, data, raySensitivity, idx)
         IN  IF after = st
             THEN RayLoop(st, data, raySensitivity, idx + 1)
             ELSE RayLoop(after, data, raySensitivity, idx + 1)
    ELSE st

RawRays_HonoursSideSwitches(data, config) ==
    LET empty == [rayHighs |-> <<>>, detectedRayHighIndices |-> {},
                  rayLows |-> <<>>, detectedRayLowIndices |-> {}]
        raySensitivity == Get(config, "raySensitivity", 2)
        raw == RayLoop(empty, data, raySensitivity, ScanStart(raySensitivity))
    IN  IF ~Get(config, "enableRays", FALSE) THEN empty
        ELSE [rayHighs |-> IF Get(config, "showHighs", TRUE) THEN raw.rayHighs ELSE <<>>,
              detectedRayHighIndices |-> raw.detectedRayHighIndices,
              rayLows |-> IF Get(config, "showLows", TRUE) THEN raw.rayLows ELSE <<>>,
              detectedRayLowIndices |-> raw.detectedRayLowIndices]

\* the lists of calculateSwingRays before the recency cap (empty when the
\* call returns before the loop)
RawRays(data, config) ==
    LET empty == [rayHighs |-> <<>>, detectedRayHighIndices |-> {},
                  rayLows |-> <<>>, detectedRayLowIndices |-> {}]
        raySensitivity == Get(config, "raySensitivity", 2)
    IN  IF ~Get(config, "enableRays", FALSE) THEN empty
        ELSE RayLoop(empty, data, raySensitivity, ScanStart(raySensitivity))

\* the recency cap of calculateSwingRays
LimitRays(points, config) == Slice(points, 0 - Get(config, "numRaysToShow", 3))

calculateSwingRays_NoSwitch(data, config) ==
    LET empty == [rayHighs |-> <<>>, detectedRayHighIndices |-> {},
                  rayLows |-> <<>>, detectedRayLowIndices |-> {}]
        raySensitivity == Get(config, "raySensitivity", 2)
        raw == RayLoop(empty, data, raySensitivity, ScanStart(raySensitivity))
    IN  [rayHighs |-> LimitRays(raw.rayHighs, config),
         rayLows |-> LimitRays(raw.rayLows, config)]

calculateSwingRays(data, config) ==
    IF ~Get(config, "enableRays", FALSE) THEN [rayHighs |-> <<>>, rayLows |-> <<>>]
    ELSE LET raw == RawRays(data, config)
         IN  [rayHighs |-> LimitRays(raw.rayHighs, config),
              rayLows |-> LimitRays(raw.rayLows, config)]

(* ---------------------------------------------------------------------- *)
(* State                                                                   *)
(* ---------------------------------------------------------------------- *)
VARIABLES
    ohlcData,               \* the candle array passed to the call
    settings,               \* the settings object passed to the call
    pc,                     \* "idle", or the function whose loop is running
    i,                      \* scan index of the running loop
    swingHighs, swingLows,  \* un-capped lists of calculateSwingZone
    detectedHighIndices, detectedLowIndices,
    rayHighs, rayLows,      \* un-capped lists of calculateSwingRays
    detectedRayHighIndices, detectedRayLowIndices,
    returned,               \* what the last finished call returned
    history,                \* what the finished calls returned, when recorded
    series, leftBars, rightBars, index, pivotValue  \* a direct pivot call

vars == <<ohlcData, settings, pc, i, swingHighs, swingLows,
          detectedHighIndices, detectedLowIndices, rayHighs, rayLows,
          detectedRayHighIndices, detectedRayLowIndices, returned, history,
          series, leftBars, rightBars, index, pivotValue>>

scanVars == <<ohlcData, settings, i, swingHighs, swingLows,
              detectedHighIndices, detectedLowIndices, rayHighs, rayLows,
              detectedRayHighIndices, detectedRayLowIndices, returned, history>>

RECURSIVE SeqsUpTo(_, _)
\* all sequences over S of length 0..n
SeqsUpTo(S, n) ==
    IF n = 0 THEN {<<>>}
    ELSE LET shorter == SeqsUpTo(S, n - 1)
         IN  shorter \cup {Append(q, x) : q \in {r \in shorter : Len(r) = n - 1}, x \in S}

(* ---------------------------------------------------------------------- *)
(* Direct calls of the pivot detector                                      *)
(* ---------------------------------------------------------------------- *)
InitPivot ==
    /\ series \in SeqsUpTo(1..MaxValue, MaxLen)
    /\ leftBars \in 0..MaxWindow
    /\ rightBars \in 0..MaxWindow
    /\ index = 0
    /\ pivotValue = NaN
    /\ pc = "idle"
    /\ ohlcData = <<>>
    /\ settings = <<>>
    /\ i = 0
    /\ swingHighs = <<>> /\ swingLows = <<>>
    /\ detectedHighIndices = {} /\ detectedLowIndices = {}
    /\ rayHighs = <<>> /\ rayLows = <<>>
    /\ detectedRayHighIndices = {} /\ detectedRayLowIndices = {}
    /\ returned = [fn |-> "none"]
    /\ history = <<>>

CallPivotHigh ==
    /\ pc = "idle"
    /\ \E k \in -1..Len(series) :
          /\ index' = k
          /\ pivotValue' = pivotHigh(series, leftBars, rightBars, k)
    /\ pc' = "pivotHigh"
    /\ UNCHANGED <<series, leftBars, rightBars>>
    /\ UNCHANGED scanVars

CallPivotLow ==
    /\ pc = "idle"
    /\ \E k \in -1..Len(series) :
          /\ index' = k
          /\ pivotValue' = pivotLow(series, leftBars, rightBars, k)
    /\ pc' = "pivotLow"
    /\ UNCHANGED <<series, leftBars, rightBars>>
    /\ UNCHANGED scanVars

NextPivot == CallPivotHigh \/ CallPivotLow

SpecPivot == InitPivot /\ [][NextPivot]_vars

\* direct pivot calls on series that may hold NaN at any position
InitPivotNaN ==
    /\ series \in SeqsUpTo((1..MaxLevel) \cup {NaN}, MaxLen)
    /\ leftBars \in 0..MaxWindow
    /\ rightBars \in 0..MaxWindow
    /\ index = 0
    /\ pivotValue = NaN
    /\ pc = "idle"
    /\ ohlcData = <<>>
    /\ settings = <<>>
    /\ i = 0
    /\ swingHighs = <<>> /\ swingLows = <<>>
    /\ detectedHighIndices = {} /\ detectedLowIndices = {}
    /\ rayHighs = <<>> /\ rayLows = <<>>
    /\ detectedRayHighIndices = {} /\ detectedRayLowIndices = {}
    /\ returned = [fn |-> "none"]
    /\ history = <<>>

SpecPivotNaN == InitPivotNaN /\ [][NextPivot]_vars

(* ---------------------------------------------------------------------- *)
(* Calls of calculateSwingZone and calculateSwingRays                      *)
(* ---------------------------------------------------------------------- *)
\* the candle array of a sequence of bars: one bar a minute, timestamps
\* ascending and not on a whole second
Candles(bars) ==
    [k \in 1..Len(bars) |->
        [high |-> bars[k].high, low |-> bars[k].low, close |-> bars[k].close,
         timestamp |-> 60000 * k + 500]]

\* the candle array with the given highs, every bar closing at its high
\* with a low one below it
CandlesOfHighs(highs) ==
    Candles([k \in 1..Len(highs) |->
                [high |-> highs[k], low |-> highs[k] - 1, close |-> highs[k]]])

\* the ten candles of the end-to-end scenario
E2EHighs == <<1, 2, 3, 10, 3, 2, 1, 5, 6, 7>>

\* eight candles with three swing highs and three swing lows one bar wide
ZigZag ==
    Candles([k \in 1..8 |->
                IF k \in {2, 4, 6} THEN [high |-> 5, low |-> 1, close |-> k \div 2]
                ELSE [high |-> 4, low |-> 2, close |-> 3]])

\* fifty-two candles that close one higher each bar, with a high that
\* spikes and a low that dips every sixth bar: long enough for the default
\* moving averages, with more swing points than the default caps keep
LongTrend ==
    Candles([k \in 1..52 |->
                [high |-> 10 + k + (IF k % 6 = 3 THEN 5 ELSE 1),
                 low |-> 10 + k - (IF k % 6 = 0 THEN 5 ELSE 1),
                 close |-> 10 + k]])

LongInputs == {CandlesOfHighs(E2EHighs), ZigZag, LongTrend}

\* candle arrays of up to MaxLen bars whose highs take every value up to
\* MaxPrice
HighInputs == {CandlesOfHighs(highs) : highs \in SeqsUpTo(1..MaxPrice, MaxLen)}

\* bars on two price levels with high, low and close chosen apart:
\* low <= high, closing at the low or at the high
TwoLevelBars ==
    {b \in [high : {1, 2}, low : {1, 2}, close : {1, 2}] :
        b.low <= b.high /\ b.close \in {b.low, b.high}}

\* every candle array of up to MaxBars two-level bars
BarInputs == {Candles(bars) : bars \in SeqsUpTo(TwoLevelBars, MaxBars)}

\* longer candle arrays: bars of a fixed height around a level that moves
\* between two values, closing at the level
LevelInputs ==
    {Candles([k \in 1..Len(levels) |->
                 [high |-> levels[k] + 1, low |-> levels[k] - 1, close |-> levels[k]]]) :
        levels \in SeqsUpTo({1, 2}, MaxLongLen)}

ScanInputs == HighInputs \cup BarInputs \cup LevelInputs \cup LongInputs

\* close series of six bars: two earlier closes, then four closes that
\* rise or fall by one
TrendCloses ==
    {<<a, b>> \o tail : a \in 1..2, b \in 1..2, tail \in {<<1, 2, 3, 4>>, <<4, 3, 2, 1>>}}

\* candles that differ in their closes only
CloseInputs ==
    {Candles([k \in 1..Len(closes) |->
                 [high |-> closes[k], low |-> closes[k], close |-> closes[k]]]) :
        closes \in SeqsUpTo(1..MaxClose, MaxCloses) \cup TrendCloses}

\* a settings object with every key the two functions read
FullSettings(sensitivity, maxSwingPoints, showHighs, showLows, showRegime, fastMALength, slowMALength, enableRays, raySensitivity, numRaysToShow) ==
    [sensitivity |-> sensitivity, maxSwingPoints |-> maxSwingPoints,
     showHighs |-> showHighs, showLows |-> showLows, showRegime |-> showRegime,
     fastMALength |-> fastMALength, slowMALength |-> slowMALength,
     enableRays |-> enableRays, raySensitivity |-> raySensitivity,
     numRaysToShow |-> numRaysToShow]

\* the settings object without one key
Without(config, key) == [k \in (DOMAIN config) \ {key} |-> config[k]]

\* the settings object with one key set to a value
With(config, key, value) ==
    [k \in (DOMAIN config) \cup {key} |-> IF k = key THEN value ELSE config[k]]

\* the empty settings object
NoSettings == [k \in {} |-> TRUE]

\* settings that vary the zone scan: every window and cap with both sides
\* shown, the cap omitted, one side hidden, no setting at all, and nothing
\* but rays enabled
ZoneSettings ==
    {FullSettings(s, m, TRUE, TRUE, TRUE, 1, 2, TRUE, 1, 1) :
        s \in 0..MaxSensitivity, m \in 0..MaxCap}
    \cup {Without(FullSettings(s, 0, TRUE, TRUE, TRUE, 1, 2, TRUE, 1, 1), "maxSwingPoints") :
            s \in 0..MaxSensitivity}
    \cup {FullSettings(s, 1, side, ~side, TRUE, 1, 2, TRUE, 1, 1) :
            s \in 0..MaxSensitivity, side \in BOOLEAN}
    \cup {NoSettings, [enableRays |-> TRUE]}

\* settings that vary the ray scan: every window and cap with rays enabled,
\* the cap omitted, rays disabled, the switch omitted, and both zone sides
\* hidden
RaySettings ==
    {FullSettings(1, 1, TRUE, TRUE, TRUE, 1, 2, TRUE, s, n) :
        s \in 0..MaxSensitivity, n \in 0..MaxCap}
    \cup {Without(FullSettings(1, 1, TRUE, TRUE, TRUE, 1, 2, TRUE, s, 0), "numRaysToShow") :
            s \in 0..MaxSensitivity}
    \cup {FullSettings(1, 1, TRUE, TRUE, TRUE, 1, 2, FALSE, 1, 1)}
    \cup {Without(FullSettings(1, 1, TRUE, TRUE, TRUE, 1, 2, FALSE, 1, 1), "enableRays")}
    \cup {FullSettings(1, 1, FALSE, FALSE, TRUE, 1, 2, TRUE, 1, 2)}

\* settings that vary the regime classification: every pair of lengths
\* with the regime shown or not, a length omitted, and
\* regimeConfirmationBars given
RegimeSettings ==
    LET full == {FullSettings(1, 1, TRUE, TRUE, sr, f, l, FALSE, 1, 1) :
                    sr \in BOOLEAN, f \in 0..MaxMALength, l \in 0..MaxMALength}
    IN  full \cup {Without(c, "slowMALength") : c \in {d \in full : d.slowMALength = 0}}
             \cup {Without(c, "fastMALength") : c \in {d \in full : d.fastMALength = 0}}
             \cup {With(FullSettings(1, 1, TRUE, TRUE, TRUE, l - 1, l, FALSE, 1, 1),
                         "regimeConfirmationBars", v) : l \in 2..3, v \in {0, 2}}

InitCall(inputs, configs) ==
    /\ ohlcData \in inputs
    /\ settings \in configs
    /\ pc = "idle"
    /\ i = 0
    /\ swingHighs = <<>> /\ swingLows = <<>>
    /\ detectedHighIndices = {} /\ detectedLowIndices = {}
    /\ rayHighs = <<>> /\ rayLows = <<>>
    /\ detectedRayHighIndices = {} /\ detectedRayLowIndices = {}
    /\ returned = [fn |-> "none"]
    /\ history = <<>>
    /\ series = <<>> /\ leftBars = 0 /\ rightBars = 0 /\ index = 0 /\ pivotValue = NaN

Init == InitCall(ScanInputs, ZoneSettings)

InitRays == InitCall(ScanInputs, RaySettings)

InitRegime == InitCall(CloseInputs, RegimeSettings)

pivotVars == <<series, leftBars, rightBars, index, pivotValue>>

ZoneEnter_SharedLists ==
    /\ pc = "idle"
    /\ pc' = "calculateSwingZone"
    /\ i' = ScanStart(Get(settings, "sensitivity", 2))
    /\ detectedHighIndices' = {} /\ detectedLowIndices' = {}
    /\ rayHighs' = <<>> /\ rayLows' = <<>>
    /\ detectedRayHighIndices' = {} /\ detectedRayLowIndices' = {}
    /\ returned' = [fn |-> "none"]
    /\ UNCHANGED <<ohlcData, settings, swingHighs, swingLows, history>>
    /\ UNCHANGED pivotVars

\* calculateSwingZone up to the first test of the loop condition
ZoneEnter ==
    /\ pc = "idle"
    /\ pc' = "calculateSwingZone"
    /\ i' = ScanStart(Get(settings, "sensitivity", 2))
    /\ swingHighs' = <<>> /\ swingLows' = <<>>
    /\ detectedHighIndices' = {} /\ detectedLowIndices' = {}
    /\ rayHighs' = <<>> /\ rayLows' = <<>>
    /\ detectedRayHighIndices' = {} /\ detectedRayLowIndices' = {}
    /\ returned' = [fn |-> "none"]
    /\ UNCHANGED <<ohlcData, settings, history>>
    /\ UNCHANGED pivotVars

\* one iteration of the scan loop of calculateSwingZone
ZoneIterate ==
    /\ pc = "calculateSwingZone"
    /\ ScanContinues(i, Len(ohlcData), Get(settings, "sensitivity", 2))
    /\ LET st == [swingHighs |-> swingHighs, detectedHighIndices |-> detectedHighIndices,
                  swingLows |-> swingLows, detectedLowIndices |-> detectedLowIndices]
           after == ZoneIteration(st, ohlcData, Get(settings, "sensitivity", 2),
                                  Get(settings, "showHighs", TRUE),
                                  Get(settings, "showLows", TRUE), i)
       IN  /\ swingHighs' = after.swingHighs
           /\ swingLows' = after.swingLows
           /\ detectedHighIndices' = after.detectedHighIndices
           /\ detectedLowIndices' = after.detectedLowIndices
    /\ i' = i + 1
    /\ UNCHANGED <<ohlcData, settings, pc, returned, history, rayHighs, rayLows,
                   detectedRayHighIndices, detectedRayLowIndices>>
    /\ UNCHANGED pivotVars

\* calculateSwingZone from the end of the loop to its return
ZoneReturnStep ==
    /\ pc = "calculateSwingZone"
    /\ ~ScanContinues(i, Len(ohlcData), Get(settings, "sensitivity", 2))
    /\ returned' = [fn |-> "calculateSwingZone",
                    swingHighs |-> LimitZone(swingHighs, settings),
                    swingLows |-> LimitZone(swingLows, settings),
                    regime |-> Regime(ohlcData, settings)]
    /\ pc' = "idle"
    /\ UNCHANGED <<ohlcData, settings, i, swingHighs, swingLows,
                   detectedHighIndices, detectedLowIndices, rayHighs, rayLows,
                   detectedRayHighIndices, detectedRayLowIndices>>
    /\ UNCHANGED pivotVars

ZoneReturn == ZoneReturnStep /\ UNCHANGED history

\* a whole call of calculateSwingRays; the lists before the cap are kept
RaysCallStep ==
    /\ pc = "idle"
    /\ LET raw == RawRays(ohlcData, settings)
       IN  /\ rayHighs' = raw.rayHighs
           /\ rayLows' = raw.rayLows
           /\ detectedRayHighIndices' = raw.detectedRayHighIndices
           /\ detectedRayLowIndices' = raw.detectedRayLowIndices
    /\ returned' = [fn |-> "calculateSwingRays"] @@ calculateSwingRays(ohlcData, settings)
    /\ i' = 0
    /\ swingHighs' = <<>> /\ swingLows' = <<>>
    /\ detectedHighIndices' = {} /\ detectedLowIndices' = {}
    /\ UNCHANGED <<ohlcData, settings, pc>>
    /\ UNCHANGED pivotVars

RaysCall == RaysCallStep /\ UNCHANGED history

Next == ZoneEnter \/ ZoneIterate \/ ZoneReturn \/ RaysCall

Spec == Init /\ [][Next]_vars

SpecRays == InitRays /\ [][Next]_vars

SpecRegime == InitRegime /\ [][Next]_vars

(* ---------------------------------------------------------------------- *)
(* Calls on candles with undefined prices                                  *)
(* ---------------------------------------------------------------------- *)
\* candle arrays of up to MaxLen bars, each bar with its three prices at
\* one level or all three NaN
NaNInputs ==
    {Candles([k \in 1..Len(levels) |->
                 [high |-> levels[k], low |-> levels[k], close |-> levels[k]]]) :
        levels \in SeqsUpTo((1..MaxLevel) \cup {NaN}, MaxLen)}

\* every window for both scans, the regime not shown
NaNSettings ==
    {FullSettings(s, 2, TRUE, TRUE, FALSE, 1, 2, TRUE, s, 2) : s \in 0..MaxSensitivity}

InitNaN == InitCall(NaNInputs, NaNSettings)

SpecNaN == InitNaN /\ [][Next]_vars

(* ---------------------------------------------------------------------- *)
(* Repeated calls on the same candles and settings, results recorded       *)
(* ---------------------------------------------------------------------- *)
\* the record of results with one more, up to MaxCalls results
Recorded(result) == IF Len(history) < MaxCalls THEN Append(history, result) ELSE history

ZoneReturnRecorded == ZoneReturnStep /\ history' = Recorded(returned')

RaysCallRecorded == RaysCallStep /\ history' = Recorded(returned')

CallSettings ==
    {FullSettings(s, 2, TRUE, TRUE, TRUE, 1, 2, TRUE, s, 2) : s \in 0..1}

InitCalls == InitCall(HighInputs \cup LongInputs, CallSettings)

NextCalls == ZoneEnter \/ ZoneIterate \/ ZoneReturnRecorded \/ RaysCallRecorded

SpecCalls == InitCalls /\ [][NextCalls]_vars

(* ---------------------------------------------------------------------- *)
(* C1                                                                      *)
(* ---------------------------------------------------------------------- *)
\* positions of the window of index k with w bars on each side, k excluded
Neighbours(k, w) == ((k - w)..(k + w)) \ {k}

\* the series with position j (0-based) overwritten by v
WithValue(arr, j, v) == [arr EXCEPT ![j + 1] = v]

\* C1 (strict extremum): with left = right = w and w <= k < len - w,
\* pivotHigh returns series[k] exactly when series[k] is strictly greater
\* than every neighbour of its window, and otherwise returns NaN; a tie put
\* at any one neighbour gives NaN.  pivotLow mirrors it with strictly less.
StrictExtremum ==
    (pc \in {"pivotHigh", "pivotLow"} /\ leftBars = rightBars
        /\ leftBars <= index /\ index < Len(series) - rightBars) =>
    LET w == leftBars
        c == series[index + 1]
    IN  /\ pc = "pivotHigh" =>
            /\ (pivotValue = c) <=> (\A j \in Neighbours(index, w) : series[j + 1] < c)
            /\ pivotValue \in {c, NaN}
            /\ \A j \in Neighbours(index, w) :
                  isNaN(pivotHigh(WithValue(series, j, c), w, w, index))
        /\ pc = "pivotLow" =>
            /\ (pivotValue = c) <=> (\A j \in Neighbours(index, w) : series[j + 1] > c)
            /\ pivotValue \in {c, NaN}
            /\ \A j \in Neighbours(index, w) :
                  isNaN(pivotLow(WithValue(series, j, c), w, w, index))

\* a pivot high reported in the middle of a window of at least one bar a side
StrictExtremumWitness ==
    /\ pc = "pivotHigh" /\ leftBars = rightBars /\ leftBars >= 1
    /\ leftBars <= index /\ index < Len(series) - rightBars
    /\ ~isNaN(pivotValue)

(* ---------------------------------------------------------------------- *)
(* Vocabulary of the scan properties                                       *)
(* ---------------------------------------------------------------------- *)
Highs == Column(ohlcData, "high")

Lows == Column(ohlcData, "low")

\* arr[k] is strictly above (below) every neighbour within w bars, for a
\* window that lies inside the array
StrictMax(arr, k, w) == \A j \in Neighbours(k, w) : arr[j + 1] < arr[k + 1]

StrictMin(arr, k, w) == \A j \in Neighbours(k, w) : arr[j + 1] > arr[k + 1]

BarIndexes(points) == {points[n].barIndex : n \in 1..Len(points)}

\* the last n entries of a list of at least n entries, in their order
LastN(points, n) == [j \in 1..n |-> points[Len(points) - n + j]]

Sensitivity == Get(settings, "sensitivity", 2)

RaySensitivity == Get(settings, "raySensitivity", 2)

ZoneReturned == pc = "idle" /\ returned.fn = "calculateSwingZone"

RaysReturned == pc = "idle" /\ returned.fn = "calculateSwingRays"

RaysEnabled == Get(settings, "enableRays", FALSE)

(* ---------------------------------------------------------------------- *)
(* C2                                                                      *)
(* ---------------------------------------------------------------------- *)
\* every bar of First..Last that is a strict extremum of its window is in
\* the un-capped list of its side
ReportsAll(points, arr, w, first, last, strict(_, _, _)) ==
    \A k \in first..last : strict(arr, k, w) => k \in BarIndexes(points)

\* C2: every bar k with s <= k < len - s whose high (low) is a strict
\* extremum of its +/-s window is in the un-capped list of
\* calculateSwingZone, and of calculateSwingRays with raySensitivity: s bars
\* after the pivot are enough for it to be reported.
PivotReportedWithSBarsAfter ==
    /\ (ZoneReturned /\ Get(settings, "showHighs", TRUE)) =>
          ReportsAll(swingHighs, Highs, Sensitivity,
                     Sensitivity, Len(ohlcData) - Sensitivity - 1, StrictMax)
    /\ (ZoneReturned /\ Get(settings, "showLows", TRUE)) =>
          ReportsAll(swingLows, Lows, Sensitivity,
                     Sensitivity, Len(ohlcData) - Sensitivity - 1, StrictMin)
    /\ (RaysReturned /\ RaysEnabled) =>
          /\ ReportsAll(rayHighs, Highs, RaySensitivity,
                        RaySensitivity, Len(ohlcData) - RaySensitivity - 1, StrictMax)
          /\ ReportsAll(rayLows, Lows, RaySensitivity,
                        RaySensitivity, Len(ohlcData) - RaySensitivity - 1, StrictMin)

(* ---------------------------------------------------------------------- *)
(* C3                                                                      *)
(* ---------------------------------------------------------------------- *)
\* the step appends the swing high of bar k to the un-capped list
EmitsHigh(k) ==
    /\ Len(swingHighs') = Len(swingHighs) + 1
    /\ swingHighs'[Len(swingHighs')].barIndex = k

\* C3 (confirmation lag): an iteration of the scan loop emits the swing
\* high of bar k exactly when its scan index is k + s (and bar k is a strict
\* maximum of its window, highs being shown): never at another scan index,
\* and never for a bar already in the list; the list only grows at its end.
ConfirmationLag ==
    [][(pc = "calculateSwingZone" /\ pc' = "calculateSwingZone") =>
          /\ \A k \in 0..(Len(ohlcData) - 1) :
                /\ EmitsHigh(k) <=>
                      /\ i = k + Sensitivity
                      /\ Get(settings, "showHighs", TRUE)
                      /\ StrictMax(Highs, k, Sensitivity)
                /\ EmitsHigh(k) => k \notin BarIndexes(swingHighs)
          /\ Len(swingHighs') \in {Len(swingHighs), Len(swingHighs) + 1}
          /\ SubSeq(swingHighs', 1, Len(swingHighs)) = swingHighs]_vars

\* the loop has just emitted the swing high of bar i - 1 - s, s >= 1
ConfirmationLagWitness ==
    /\ pc = "calculateSwingZone" /\ Sensitivity >= 1
    /\ swingHighs # <<>>
    /\ swingHighs[Len(swingHighs)].barIndex + Sensitivity = i - 1

(* ---------------------------------------------------------------------- *)
(* C4                                                                      *)
(* ---------------------------------------------------------------------- *)
\* the list returned for a side is the last m raw pivots when there are
\* more than m, and all of them otherwise
CappedTo(limited, raw, m) ==
    IF Len(raw) > m THEN Len(limited) = m /\ limited = LastN(raw, m)
    ELSE limited = raw

\* C4 as stated (recency cap for every setting m of maxSwingPoints)
RecencyCapEveryM ==
    (ZoneReturned /\ "maxSwingPoints" \in DOMAIN settings) =>
        /\ CappedTo(returned.swingHighs, swingHighs, settings.maxSwingPoints)
        /\ CappedTo(returned.swingLows, swingLows, settings.maxSwingPoints)

\* C4 (recency cap), amended: for every setting m >= 1 of maxSwingPoints
\* the list returned for a side is the last m raw pivots, in their order,
\* when the scan found more than m, and all of them otherwise; a setting of
\* 0, like an omitted one, is replaced by the default 2.
RecencyCap ==
    ZoneReturned =>
        LET m == IF "maxSwingPoints" \in DOMAIN settings /\ settings.maxSwingPoints >= 1
                 THEN settings.maxSwingPoints ELSE 2
        IN  /\ CappedTo(returned.swingHighs, swingHighs, m)
            /\ CappedTo(returned.swingLows, swingLows, m)

\* a call with windows of at least one bar that found more pivot highs
\* than the cap m >= 1
RecencyCapWitness ==
    /\ ZoneReturned /\ Sensitivity >= 1
    /\ "maxSwingPoints" \in DOMAIN settings /\ settings.maxSwingPoints >= 1
    /\ Len(swingHighs) > settings.maxSwingPoints
    /\ Len(returned.swingHighs) = settings.maxSwingPoints

(* ---------------------------------------------------------------------- *)
(* C5                                                                      *)
(* ---------------------------------------------------------------------- *)
\* the settings with maxSwingPoints set to each value, and without the key
CapVariants(config) ==
    {[config EXCEPT !.maxSwingPoints = m] : m \in 0..(MaxCap + 1)}
        \cup {Without(config, "maxSwingPoints")}

\* C5: with enableRays true, each returned ray list has at most
\* numRaysToShow = n entries and is the last n (or all) of the raw list, in
\* order, for every n; the result is the same for every maxSwingPoints.
RayCapEveryN ==
    (RaysReturned /\ RaysEnabled /\ "numRaysToShow" \in DOMAIN settings) =>
        LET n == settings.numRaysToShow
        IN  /\ Len(returned.rayHighs) <= n /\ Len(returned.rayLows) <= n
            /\ CappedTo(returned.rayHighs, rayHighs, n)
            /\ CappedTo(returned.rayLows, rayLows, n)
            /\ \A c \in CapVariants(settings) :
                  LET other == calculateSwingRays(ohlcData, c)
                  IN  other.rayHighs = returned.rayHighs /\ other.rayLows = returned.rayLows

(* ---------------------------------------------------------------------- *)
(* C6                                                                      *)
(* ---------------------------------------------------------------------- *)
Flat(arr) == \A a, b \in 1..Len(arr) : arr[a] = arr[b]

FlatSeries == Flat(Highs) /\ Flat(Lows)

\* the un-capped ray lists for the ray window w
NoRaysFor(w) ==
    LET raw == RawRays(ohlcData, With(With(settings, "enableRays", TRUE), "raySensitivity", w))
    IN  raw.rayHighs = <<>> /\ raw.rayLows = <<>>

\* C6 as stated: a flat series gives no pivot for any window size >= 0
FlatSeriesNoPivotAnyWindow ==
    FlatSeries =>
        /\ ZoneReturned =>
              /\ swingHighs = <<>> /\ swingLows = <<>>
              /\ returned.swingHighs = <<>> /\ returned.swingLows = <<>>
        /\ RaysReturned => returned.rayHighs = <<>> /\ returned.rayLows = <<>>

\* C6, amended: for every series length and every window size of at least
\* one bar, a series with all highs equal and all lows equal gives empty
\* swingHighs and swingLows and empty rayHighs and rayLows (with a window
\* of 0 bars every bar is a pivot).
FlatSeriesNoPivot ==
    FlatSeries =>
        /\ (ZoneReturned /\ Sensitivity >= 1) =>
              /\ swingHighs = <<>> /\ swingLows = <<>>
              /\ returned.swingHighs = <<>> /\ returned.swingLows = <<>>
        /\ (RaysReturned /\ RaySensitivity >= 1) =>
              returned.rayHighs = <<>> /\ returned.rayLows = <<>>
        /\ \A w \in 1..MaxSensitivity : NoRaysFor(w)

\* a flat series long enough for the loop to run, scanned with s >= 1
FlatSeriesNoPivotWitness ==
    /\ FlatSeries /\ ZoneReturned /\ Sensitivity >= 1
    /\ Len(ohlcData) > 3 * Sensitivity
    /\ Get(settings, "showHighs", TRUE) /\ Get(settings, "showLows", TRUE)

(* ---------------------------------------------------------------------- *)
(* C7                                                                      *)
(* ---------------------------------------------------------------------- *)
E2ECall ==
    /\ Highs = E2EHighs
    /\ Sensitivity = 2
    /\ Get(settings, "showHighs", TRUE)
    /\ "maxSwingPoints" \in DOMAIN settings /\ settings.maxSwingPoints >= 1

IsE2EHigh(points) ==
    /\ Len(points) = 1
    /\ points[1].barIndex = 3 /\ points[1].price = 10 /\ points[1].type = "high"

\* C7 (end-to-end scenario): for the highs [1,2,3,10,3,2,1,5,6,7] and
\* sensitivity 2 the scan has no swing high before the iteration with scan
\* index 5 is over, this iteration emits the one of bar 3 with price 10, no
\* other is emitted, and the call returns exactly this swing high.
E2EScenario ==
    E2ECall =>
        /\ pc = "calculateSwingZone" =>
              IF i <= 5 THEN swingHighs = <<>> ELSE IsE2EHigh(swingHighs)
        /\ ZoneReturned => IsE2EHigh(swingHighs) /\ IsE2EHigh(returned.swingHighs)

E2EScenarioWitness == E2ECall /\ ZoneReturned /\ returned.swingHighs # <<>>

(* ---------------------------------------------------------------------- *)
(* Vocabulary of the regime properties                                     *)
(* ---------------------------------------------------------------------- *)
Closes == Column(ohlcData, "close")

FastMALength == Get(settings, "fastMALength", 21)

SlowMALength == Get(settings, "slowMALength", 50)

RECURSIVE SumFromTo(_, _, _)
\* arr[a] + ... + arr[b], positions 0-based
SumFromTo(arr, a, b) == IF a > b THEN 0 ELSE arr[b + 1] + SumFromTo(arr, a, b - 1)

\* the unweighted mean of the length closes that end at position pos, as
\* total and count; it is undefined when fewer than length closes end there
TrailingMean(pos, length) ==
    IF length >= 1 /\ pos - length + 1 >= 0 /\ pos < Len(Closes)
    THEN [defined |-> TRUE, total |-> SumFromTo(Closes, pos - length + 1, pos), count |-> length]
    ELSE [defined |-> FALSE, total |-> 0, count |-> 1]

ClosePrice(pos) == [defined |-> TRUE, total |-> Closes[pos + 1], count |-> 1]

\* x > y for two means; a comparison with an undefined mean is false
Above(x, y) == x.defined /\ y.defined /\ x.total * y.count > y.total * x.count

CurrentBar == Len(Closes) - 1

PreviousBar == CurrentBar - 1

FastMean(pos) == TrailingMean(pos, FastMALength)

SlowMean(pos) == TrailingMean(pos, SlowMALength)

BullRule ==
    /\ Above(FastMean(CurrentBar), SlowMean(CurrentBar))
    /\ Above(FastMean(CurrentBar), FastMean(PreviousBar))
    /\ Above(SlowMean(CurrentBar), SlowMean(PreviousBar))
    /\ Above(ClosePrice(CurrentBar), FastMean(CurrentBar))

BearRule ==
    /\ Above(SlowMean(CurrentBar), FastMean(CurrentBar))
    /\ Above(FastMean(PreviousBar), FastMean(CurrentBar))
    /\ Above(SlowMean(PreviousBar), SlowMean(CurrentBar))
    /\ Above(FastMean(CurrentBar), ClosePrice(CurrentBar))

RegimeReturned == ZoneReturned /\ returned.regime # <<>>

(* ---------------------------------------------------------------------- *)
(* C8                                                                      *)
(* ---------------------------------------------------------------------- *)
\* C8 (classification rule): a returned regime is 'Bull Trend' exactly when
\* fastMA[cur] > slowMA[cur], fastMA[cur] > fastMA[prev], slowMA[cur] >
\* slowMA[prev] and close[cur] > fastMA[cur]; 'Bear Trend' exactly when the
\* four hold with <; 'Range' otherwise; the MAs being the unweighted means
\* of the trailing fastMALength / slowMALength closes.
RegimeRule ==
    RegimeReturned =>
        LET label == returned.regime[1].regime
        IN  /\ label \in {"Bull Trend", "Bear Trend", "Range"}
            /\ (label = "Bull Trend") <=> BullRule
            /\ (label = "Bear Trend") <=> BearRule
            /\ (label = "Range") <=> (~BullRule /\ ~BearRule)

RegimeRuleWitness == RegimeReturned /\ returned.regime[1].regime = "Bull Trend"

RegimeRuleBearWitness == RegimeReturned /\ returned.regime[1].regime = "Bear Trend"

(* ---------------------------------------------------------------------- *)
(* C9                                                                      *)
(* ---------------------------------------------------------------------- *)
\* C9: no regime is returned whenever the fast or the slow moving average
\* is undefined at the current (last) or at the previous position; so none
\* is returned for a series of exactly slowMALength closes.
SkippedWhenAnyMAUndefined ==
    (/\ ZoneReturned
     /\ \/ ~FastMean(CurrentBar).defined \/ ~SlowMean(CurrentBar).defined
        \/ ~FastMean(PreviousBar).defined \/ ~SlowMean(PreviousBar).defined)
        => returned.regime = <<>>

(* ---------------------------------------------------------------------- *)
(* C10                                                                     *)
(* ---------------------------------------------------------------------- *)
\* C10 (insufficient data): a series of fewer than slowMALength closes, the
\* empty one included, gets no regime.
InsufficientData ==
    (ZoneReturned /\ Len(ohlcData) < SlowMALength) => returned.regime = <<>>

\* a call with the regime shown and a fast MA defined at both positions,
\* on fewer closes than slowMALength
InsufficientDataWitness ==
    /\ ZoneReturned /\ Get(settings, "showRegime", TRUE)
    /\ "slowMALength" \in DOMAIN settings /\ Len(ohlcData) < SlowMALength
    /\ FastMean(PreviousBar).defined
    /\ returned.regime = <<>>

(* ---------------------------------------------------------------------- *)
(* C11                                                                     *)
(* ---------------------------------------------------------------------- *)
Increasing(arr) == \A a \in 1..(Len(arr) - 1) : arr[a] < arr[a + 1]

Decreasing(arr) == \A a \in 1..(Len(arr) - 1) : arr[a] > arr[a + 1]

\* the label of the regime of the finished call, "none" when it has none
Label == IF returned.regime = <<>> THEN "none" ELSE returned.regime[1].regime

ShowRegime == Get(settings, "showRegime", TRUE)

\* C11 as stated: for fastMALength < slowMALength (averages of at least
\* one close), every strictly increasing close series of length >=
\* slowMALength yields 'Bull Trend', every strictly decreasing one 'Bear
\* Trend', every constant one 'Range'
RegimeMonotonicityFromSlowLength ==
    (/\ ZoneReturned /\ ShowRegime
     /\ 1 <= FastMALength /\ FastMALength < SlowMALength
     /\ Len(Closes) >= SlowMALength) =>
        /\ Increasing(Closes) => Label = "Bull Trend"
        /\ Decreasing(Closes) => Label = "Bear Trend"
        /\ Flat(Closes) => Label = "Range"

\* C11 (regime monotonicity), amended: for 2 <= fastMALength <
\* slowMALength, every strictly increasing close series of length >=
\* slowMALength + 1 yields 'Bull Trend' and every strictly decreasing one
\* 'Bear Trend'; for 1 <= fastMALength < slowMALength every constant close
\* series of length >= slowMALength + 1 yields 'Range'.
RegimeMonotonicity ==
    (/\ ZoneReturned /\ ShowRegime
     /\ 1 <= FastMALength /\ FastMALength < SlowMALength
     /\ Len(Closes) >= SlowMALength + 1) =>
        /\ (Increasing(Closes) /\ FastMALength >= 2) => Label = "Bull Trend"
        /\ (Decreasing(Closes) /\ FastMALength >= 2) => Label = "Bear Trend"
        /\ Flat(Closes) => Label = "Range"

\* a strictly increasing series one close longer than the slow average,
\* classified with a fast average of at least two closes
RegimeMonotonicityWitness ==
    /\ ZoneReturned /\ ShowRegime
    /\ 2 <= FastMALength /\ FastMALength < SlowMALength
    /\ Len(Closes) >= SlowMALength + 1
    /\ Increasing(Closes)
    /\ Label = "Bull Trend"

(* ---------------------------------------------------------------------- *)
(* C12                                                                     *)
(* ---------------------------------------------------------------------- *)
\* the settings with rays switched off either way, for every ray window
\* and every ray cap (the cap omitted too)
RaysOffVariants(config) ==
    LET off == {With(config, "enableRays", FALSE), Without(config, "enableRays")}
        windows == {With(c, "raySensitivity", s) : c \in off, s \in 0..MaxSensitivity}
    IN  {With(c, "numRaysToShow", n) : c \in windows, n \in 0..MaxCap}
            \cup {Without(c, "numRaysToShow") : c \in windows}

NoRays(result) == result.rayHighs = <<>> /\ result.rayLows = <<>>

\* C12 (ray short-circuit): when enableRays is false or omitted,
\* calculateSwingRays returns rayHighs = [] and rayLows = [] for every
\* candle series and every value of raySensitivity and numRaysToShow.
RaysOffGiveNoRays ==
    RaysReturned =>
        /\ ~RaysEnabled => NoRays(returned) /\ rayHighs = <<>> /\ rayLows = <<>>
        /\ \A c \in RaysOffVariants(settings) : NoRays(calculateSwingRays(ohlcData, c))

\* a call without the enableRays key on candles that have a ray as soon as
\* rays are enabled
RaysOffGiveNoRaysWitness ==
    /\ RaysReturned /\ "enableRays" \notin DOMAIN settings
    /\ RaySensitivity >= 1
    /\ RawRays(ohlcData, With(settings, "enableRays", TRUE)).rayHighs # <<>>

(* ---------------------------------------------------------------------- *)
(* C13                                                                     *)
(* ---------------------------------------------------------------------- *)
BarIndexSeq(points) == [n \in 1..Len(points) |-> points[n].barIndex]

ShowHighs == Get(settings, "showHighs", TRUE)

ShowLows == Get(settings, "showLows", TRUE)

\* the settings of the call with rays enabled and the ray window equal to
\* the zone window
RaySettingsLikeZone ==
    With(With(settings, "enableRays", TRUE), "raySensitivity", Sensitivity)

\* entry by entry: same bar, the zone price is the bar's extreme price,
\* the ray price is its close, and the two differ exactly when the bar's
\* extreme price differs from its close
SameBarsTwoPrices(zone, rays, extremes) ==
    /\ BarIndexSeq(rays) = BarIndexSeq(zone)
    /\ \A n \in 1..Len(zone) :
          LET k == zone[n].barIndex
          IN  /\ zone[n].price = extremes[k + 1]
              /\ rays[n].price = Closes[k + 1]
              /\ (zone[n].price # rays[n].price) <=> (extremes[k + 1] # Closes[k + 1])
              /\ zone[n].type = rays[n].type /\ zone[n].time = rays[n].time

\* C13 (ray vs zone): for the same candles, with raySensitivity equal to
\* sensitivity, showHighs and showLows true and caps that do not truncate,
\* the ray lists and the zone lists hold the same barIndex values in the
\* same order; each zone price is the bar's high (low), each ray price the
\* same bar's close, so the two differ exactly when the pivot bar's high
\* (low) differs from its close.
RaysMatchZone ==
    (ZoneReturned /\ ShowHighs /\ ShowLows) =>
        LET raw == RawRays(ohlcData, RaySettingsLikeZone)
        IN  /\ SameBarsTwoPrices(swingHighs, raw.rayHighs, Highs)
            /\ SameBarsTwoPrices(swingLows, raw.rayLows, Lows)
            /\ \A n \in 1..(MaxCap + 1) :
                  LET rays == calculateSwingRays(ohlcData, With(RaySettingsLikeZone, "numRaysToShow", n))
                  IN  /\ (returned.swingHighs = swingHighs /\ Len(swingHighs) <= n) =>
                            SameBarsTwoPrices(returned.swingHighs, rays.rayHighs, Highs)
                      /\ (returned.swingLows = swingLows /\ Len(swingLows) <= n) =>
                            SameBarsTwoPrices(returned.swingLows, rays.rayLows, Lows)

\* a call with both sides shown that returns, untruncated, a swing high
\* whose bar closes away from its high
RaysMatchZoneWitness ==
    /\ ZoneReturned /\ ShowHighs /\ ShowLows /\ Sensitivity >= 1
    /\ returned.swingHighs = swingHighs
    /\ \E n \in 1..Len(swingHighs) :
          Highs[swingHighs[n].barIndex + 1] # Closes[swingHighs[n].barIndex + 1]

(* ---------------------------------------------------------------------- *)
(* C14                                                                     *)
(* ---------------------------------------------------------------------- *)
\* the settings with one key true, false and omitted
FlagVariants(config, key) ==
    {With(config, key, flag) : flag \in BOOLEAN} \cup {Without(config, key)}

\* C14 (side switches): when showHighs is false calculateSwingZone returns
\* swingHighs = [], when showLows is false it returns swingLows = [];
\* toggling one flag never changes the list returned for the other side nor
\* the regime.
SideSwitches ==
    ZoneReturned =>
        /\ ~ShowHighs => returned.swingHighs = <<>> /\ swingHighs = <<>>
        /\ ~ShowLows => returned.swingLows = <<>> /\ swingLows = <<>>
        /\ \A c \in FlagVariants(settings, "showHighs") :
              LET other == calculateSwingZone(ohlcData, c)
              IN  /\ other.swingLows = returned.swingLows
                  /\ other.regime = returned.regime
                  /\ ~Get(c, "showHighs", TRUE) => other.swingHighs = <<>>
        /\ \A c \in FlagVariants(settings, "showLows") :
              LET other == calculateSwingZone(ohlcData, c)
              IN  /\ other.swingHighs = returned.swingHighs
                  /\ other.regime = returned.regime
                  /\ ~Get(c, "showLows", TRUE) => other.swingLows = <<>>

\* a call with the highs hidden that returns swing lows and a regime, on
\* candles that have swing highs when they are shown
SideSwitchesWitness ==
    /\ ZoneReturned /\ ~ShowHighs /\ Sensitivity >= 1
    /\ returned.swingLows # <<>> /\ returned.regime # <<>>
    /\ calculateSwingZone(ohlcData, With(settings, "showHighs", TRUE)).swingHighs # <<>>

(* ---------------------------------------------------------------------- *)
(* C15                                                                     *)
(* ---------------------------------------------------------------------- *)
\* the settings with every combination of showHighs and showLows, each
\* true, false or omitted
SideVariants(config) ==
    UNION {FlagVariants(c, "showLows") : c \in FlagVariants(config, "showHighs")}

\* C15: with enableRays true, calculateSwingRays returns the same rayHighs
\* and rayLows for all four combinations of showHighs and showLows.
RaysIgnoreSideSwitches ==
    (RaysReturned /\ RaysEnabled) =>
        \A c \in SideVariants(settings) :
            LET other == calculateSwingRays(ohlcData, c)
            IN  other.rayHighs = returned.rayHighs /\ other.rayLows = returned.rayLows

\* a call with rays enabled and both zone sides hidden that returns a ray
\* high and a ray low
RaysIgnoreSideSwitchesWitness ==
    /\ RaysReturned /\ RaysEnabled /\ RaySensitivity >= 1
    /\ ~ShowHighs /\ ~ShowLows
    /\ returned.rayHighs # <<>> /\ returned.rayLows # <<>>

(* ---------------------------------------------------------------------- *)
(* C16                                                                     *)
(* ---------------------------------------------------------------------- *)
\* what the finished call of calculateSwingZone returned
ZoneResult ==
    [swingHighs |-> returned.swingHighs, swingLows |-> returned.swingLows,
     regime |-> returned.regime]

\* what the finished call of calculateSwingRays returned
RaysResult == [rayHighs |-> returned.rayHighs, rayLows |-> returned.rayLows]

\* C16 (purity and determinism): no step of a call modifies the candle
\* array or the settings object; any two calls of the same function in a
\* run on these candles and settings have returned equal results, whatever
\* calls were made in between and in whatever order, each being the value
\* that the candles and the settings alone determine.
PureAndDeterministic ==
    [][/\ ohlcData' = ohlcData /\ settings' = settings
       /\ \A a, b \in 1..Len(history') :
             history'[a].fn = history'[b].fn => history'[a] = history'[b]
       /\ ZoneReturned' => ZoneResult' = calculateSwingZone(ohlcData, settings)
       /\ RaysReturned' => RaysResult' = calculateSwingRays(ohlcData, settings)]_vars

\* calculateSwingZone, calculateSwingRays and calculateSwingZone again have
\* returned, with swing highs and ray highs
PureAndDeterministicWitness ==
    /\ Len(history) = 3 /\ Sensitivity >= 1
    /\ history[1].fn = "calculateSwingZone" /\ history[1].swingHighs # <<>>
    /\ history[2].fn = "calculateSwingRays" /\ history[2].rayHighs # <<>>
    /\ history[3].fn = "calculateSwingZone"

(* ---------------------------------------------------------------------- *)
(* C17                                                                     *)
(* ---------------------------------------------------------------------- *)
\* the settings with regimeConfirmationBars zero, one, large and omitted
ConfirmationBarsVariants(config) ==
    {With(config, "regimeConfirmationBars", v) : v \in {0, 1, MaxMALength}}
        \cup {Without(config, "regimeConfirmationBars")}

\* C17: regimeConfirmationBars is inert: for every candle series and every
\* other setting, the swingHighs, swingLows and regime returned by
\* calculateSwingZone are the same for every value of
\* regimeConfirmationBars, the omitted one included.
ConfirmationBarsInert ==
    ZoneReturned =>
        \A c \in ConfirmationBarsVariants(settings) :
            calculateSwingZone(ohlcData, c) = ZoneResult

\* a call with regimeConfirmationBars 2 that returns a trend on one close
\* more than the slow average takes
ConfirmationBarsInertWitness ==
    /\ ZoneReturned
    /\ "regimeConfirmationBars" \in DOMAIN settings /\ settings.regimeConfirmationBars = 2
    /\ Len(Closes) = SlowMALength + 1
    /\ Label \in {"Bull Trend", "Bear Trend"}

(* ---------------------------------------------------------------------- *)
(* C18                                                                     *)
(* ---------------------------------------------------------------------- *)
\* the zone settings the documentation gives as defaults, and the ray ones
DocumentedZoneSettings ==
    [sensitivity |-> 2, maxSwingPoints |-> 2, showHighs |-> TRUE, showLows |-> TRUE,
     fastMALength |-> 21, slowMALength |-> 50]

DocumentedRaySettings == [enableRays |-> TRUE, raySensitivity |-> 2, numRaysToShow |-> 3]

\* C18 (documented defaults): calculateSwingZone with an empty settings
\* object gives the same result as with sensitivity 2, maxSwingPoints 2,
\* showHighs true, showLows true, fastMALength 21 and slowMALength 50;
\* calculateSwingRays with only enableRays true gives the same result as
\* with raySensitivity 2 and numRaysToShow 3.
DocumentedDefaults ==
    /\ (ZoneReturned /\ settings = NoSettings) =>
          ZoneResult = calculateSwingZone(ohlcData, DocumentedZoneSettings)
    /\ (RaysReturned /\ settings = [enableRays |-> TRUE]) =>
          RaysResult = calculateSwingRays(ohlcData, DocumentedRaySettings)
    /\ pc = "idle" =>
          /\ calculateSwingZone(ohlcData, NoSettings)
                = calculateSwingZone(ohlcData, DocumentedZoneSettings)
          /\ calculateSwingRays(ohlcData, [enableRays |-> TRUE])
                = calculateSwingRays(ohlcData, DocumentedRaySettings)

\* a call with an empty settings object on candles with more than two
\* swing highs for windows of two bars and more closes than the slow
\* average of 50 takes: two swing highs and a regime are returned
DocumentedDefaultsWitness ==
    /\ ZoneReturned /\ settings = NoSettings
    /\ Len(ohlcData) > 50
    /\ Len(swingHighs) > 2 /\ Len(returned.swingHighs) = 2
    /\ returned.regime # <<>>

(* ---------------------------------------------------------------------- *)
(* C19                                                                     *)
(* ---------------------------------------------------------------------- *)
NoSwings(result) == result.swingHighs = <<>> /\ result.swingLows = <<>>

\* the windows w for which the candle array has fewer than 2 * w candles
WideWindows == {w \in 0..(MaxSensitivity + 1) : Len(ohlcData) < 2 * w}

\* C19 (short series degrade to empty): for every candle series with fewer
\* than 2 * sensitivity candles, the empty series included,
\* calculateSwingZone returns empty swingHighs and swingLows, and for fewer
\* than 2 * raySensitivity candles calculateSwingRays returns empty
\* rayHighs and rayLows; the calls return (a read outside the array gives
\* undefined, nothing is raised).
ShortSeriesEmpty ==
    /\ (ZoneReturned /\ Len(ohlcData) < 2 * Sensitivity) =>
          NoSwings(returned) /\ swingHighs = <<>> /\ swingLows = <<>>
    /\ (RaysReturned /\ Len(ohlcData) < 2 * RaySensitivity) =>
          NoRays(returned) /\ rayHighs = <<>> /\ rayLows = <<>>
    /\ pc = "idle" =>
          \A w \in WideWindows :
              /\ NoSwings(calculateSwingZone(ohlcData, With(settings, "sensitivity", w)))
              /\ NoRays(calculateSwingRays(ohlcData,
                            With(With(settings, "enableRays", TRUE), "raySensitivity", w)))

\* a call with both sides shown has returned on a series of at least one
\* candle and fewer than 2 * sensitivity
ShortSeriesEmptyWitness ==
    /\ ZoneReturned /\ ShowHighs /\ ShowLows
    /\ 1 <= Len(ohlcData) /\ Len(ohlcData) < 2 * Sensitivity
    /\ NoSwings(returned)

(* ---------------------------------------------------------------------- *)
(* C20                                                                     *)
(* ---------------------------------------------------------------------- *)
\* the list holds exactly the bars of first..last that are strict extrema
\* of their window of w bars a side, once each, in ascending order
ExactlyTheExtrema(points, arr, w, first, last, strict(_, _, _)) ==
    /\ BarIndexes(points) = {k \in first..last : strict(arr, k, w)}
    /\ \A a, b \in 1..Len(points) : a < b => points[a].barIndex < points[b].barIndex

\* the un-capped ray lists for the ray window w
RaysFor(w) == RawRays(ohlcData, With(With(settings, "enableRays", TRUE), "raySensitivity", w))

\* C20 (scan range): the scan index i of calculateSwingZone runs from
\* 2 * sensitivity up to len - sensitivity exclusive and each step tests
\* only bar i - sensitivity, so the un-capped swing-high list is exactly the
\* set of bars k with sensitivity <= k <= len - 2 * sensitivity - 1 whose
\* high is a strict maximum of its +/- sensitivity window; the same for
\* lows, and for rays with raySensitivity.
ScanRange ==
    LET s == Sensitivity
        len == Len(ohlcData)
    IN  /\ pc = "calculateSwingZone" =>
              /\ 2 * s <= i
              /\ i <= (IF len - s > 2 * s THEN len - s ELSE 2 * s)
              /\ ShowHighs => ExactlyTheExtrema(swingHighs, Highs, s, s, i - s - 1, StrictMax)
              /\ ShowLows => ExactlyTheExtrema(swingLows, Lows, s, s, i - s - 1, StrictMin)
        /\ ZoneReturned =>
              /\ ShowHighs => ExactlyTheExtrema(swingHighs, Highs, s, s, len - 2 * s - 1, StrictMax)
              /\ ShowLows => ExactlyTheExtrema(swingLows, Lows, s, s, len - 2 * s - 1, StrictMin)
              /\ \A w \in 0..MaxSensitivity :
                    LET whole == RaysFor(w)
                    IN  /\ ExactlyTheExtrema(whole.rayHighs, Highs, w, w, len - 2 * w - 1, StrictMax)
                        /\ ExactlyTheExtrema(whole.rayLows, Lows, w, w, len - 2 * w - 1, StrictMin)
        /\ (RaysReturned /\ RaysEnabled) =>
              LET w == RaySensitivity
              IN  /\ ExactlyTheExtrema(rayHighs, Highs, w, w, len - 2 * w - 1, StrictMax)
                  /\ ExactlyTheExtrema(rayLows, Lows, w, w, len - 2 * w - 1, StrictMin)

\* a call with windows of at least one bar has returned with a swing high
\* in its list, on candles with a strict maximum of a whole window past
\* the last bar of the range
ScanRangeWitness ==
    /\ ZoneReturned /\ ShowHighs /\ Sensitivity >= 1
    /\ swingHighs # <<>>
    /\ \E k \in (Len(ohlcData) - 2 * Sensitivity)..(Len(ohlcData) - Sensitivity - 1) :
          StrictMax(Highs, k, Sensitivity)

(* ---------------------------------------------------------------------- *)
(* C21                                                                     *)
(* ---------------------------------------------------------------------- *)
\* the barIndex values of the list are strictly increasing
Ascending(points) ==
    \A a, b \in 1..Len(points) : a < b => points[a].barIndex < points[b].barIndex

\* C21 (order and deduplication): in every list returned by
\* calculateSwingZone and calculateSwingRays the barIndex values are
\* strictly increasing, so no bar index appears twice on the same side,
\* for every series and every setting.
StrictlyAscending ==
    /\ ZoneReturned =>
          /\ Ascending(returned.swingHighs) /\ Ascending(returned.swingLows)
          /\ Cardinality(BarIndexes(returned.swingHighs)) = Len(returned.swingHighs)
          /\ Cardinality(BarIndexes(returned.swingLows)) = Len(returned.swingLows)
          /\ \A w \in 0..MaxSensitivity :
                LET whole == RaysFor(w)
                IN  \A n \in 0..MaxCap :
                        LET c == With(settings, "numRaysToShow", n)
                        IN  /\ Ascending(LimitRays(whole.rayHighs, c))
                            /\ Ascending(LimitRays(whole.rayLows, c))
    /\ RaysReturned =>
          /\ Ascending(returned.rayHighs) /\ Ascending(returned.rayLows)
          /\ Cardinality(BarIndexes(returned.rayHighs)) = Len(returned.rayHighs)

\* a call with windows of at least one bar has returned two swing highs
\* and two swing lows
StrictlyAscendingWitness ==
    /\ ZoneReturned /\ Sensitivity >= 1
    /\ Len(returned.swingHighs) >= 2 /\ Len(returned.swingLows) >= 2

(* ---------------------------------------------------------------------- *)
(* C22                                                                     *)
(* ---------------------------------------------------------------------- *)
\* the index of the call has fewer than left bars before it or fewer than
\* right bars after it
AtTheBoundary == index < leftBars \/ index >= Len(series) - rightBars

\* the positions the call has read
PivotReads ==
    IF pc = "pivotHigh" THEN pivotHighReads(series, leftBars, rightBars, index)
    ELSE pivotLowReads(series, leftBars, rightBars, index)

\* C22 (boundary policy): pivotHigh and pivotLow report no pivot for every
\* index with index < left or index >= len - right, whatever the series
\* values, and for any other index read no element outside the series.
BoundaryPolicy ==
    pc \in {"pivotHigh", "pivotLow"} =>
        /\ AtTheBoundary => isNaN(pivotValue) /\ PivotReads = {}
        /\ ~AtTheBoundary =>
              /\ PivotReads \subseteq 0..(Len(series) - 1)
              /\ index \in PivotReads

\* a call on the first index that has too few bars after it, with the
\* centre above every bar of the series that is in its window
BoundaryPolicyWitness ==
    /\ pc = "pivotHigh" /\ leftBars >= 1 /\ rightBars >= 1
    /\ index = Len(series) - rightBars /\ index >= leftBars
    /\ \A j \in (index - leftBars)..(Len(series) - 1) : j # index => Lt(series[j + 1], series[index + 1])
    /\ isNaN(pivotValue)

(* ---------------------------------------------------------------------- *)
(* C23                                                                     *)
(* ---------------------------------------------------------------------- *)
\* C23: a bar is reported as a swing high only if its high compares
\* strictly greater than every neighbour of its window, so a window with a
\* NaN high at the centre or at any neighbour yields no pivot for that bar
\* (mirror for lows).
NaNWindowGivesNoPivot ==
    ZoneReturned =>
        /\ \A k \in BarIndexes(swingHighs) :
              \A j \in Neighbours(k, Sensitivity) : Gt(At(Highs, k), At(Highs, j))
        /\ \A k \in BarIndexes(swingLows) :
              \A j \in Neighbours(k, Sensitivity) : Lt(At(Lows, k), At(Lows, j))

(* ---------------------------------------------------------------------- *)
(* C24                                                                     *)
(* ---------------------------------------------------------------------- *)
\* the candles with one price of the bar at position p set to v
WithPrice(data, p, field, v) ==
    [k \in 1..Len(data) |-> IF k = p + 1 THEN With(data[k], field, v) ELSE data[k]]

\* the last n candles
LastCandles(data, n) == SubSeq(data, Len(data) - n + 1, Len(data))

\* C24: for fastMALength <= slowMALength the regime returned by
\* calculateSwingZone depends only on the last slowMALength + 1 closes:
\* changing any earlier close, or any high or low (to a price below or
\* above every close), leaves it unchanged, and so does dropping every
\* earlier candle.
RegimeOfFinalBars ==
    (ZoneReturned /\ FastMALength <= SlowMALength) =>
        LET len == Len(ohlcData)
        IN  /\ \A p \in 0..(len - SlowMALength - 2), v \in 1..MaxClose :
                  Regime(WithPrice(ohlcData, p, "close", v), settings) = returned.regime
            /\ \A p \in 0..(len - 1), v \in {0, MaxClose + 1} :
                  /\ Regime(WithPrice(ohlcData, p, "high", v), settings) = returned.regime
                  /\ Regime(WithPrice(ohlcData, p, "low", v), settings) = returned.regime
            /\ len >= SlowMALength + 1 =>
                  Regime(LastCandles(ohlcData, SlowMALength + 1), settings) = returned.regime

\* a trend returned on two closes more than the last slowMALength + 1
RegimeOfFinalBarsWitness ==
    /\ ZoneReturned /\ 1 <= FastMALength /\ FastMALength <= SlowMALength
    /\ Len(ohlcData) >= SlowMALength + 3
    /\ Label \in {"Bull Trend", "Bear Trend"}

(* ---------------------------------------------------------------------- *)
(* C25                                                                     *)
(* ---------------------------------------------------------------------- *)
\* every point of the list sits on a bar of the candles, with the price of
\* the given field of that bar and its timestamp in whole seconds
PointsOfCandles(points, data, field) ==
    \A n \in 1..Len(points) :
        LET k == points[n].barIndex
        IN  /\ 0 <= k /\ k < Len(data)
            /\ points[n].price = data[k + 1][field]
            /\ points[n].time * 1000 <= data[k + 1].timestamp
            /\ data[k + 1].timestamp < (points[n].time + 1) * 1000

\* the smaller of two numbers
Smaller(a, b) == IF a < b THEN a ELSE b

\* the candles without their first d
DropFirst(data, d) == SubSeq(data, d + 1, Len(data))

\* every point of the list whose bar stays at least w bars from the start
\* once the first d candles are dropped is in the other list with its
\* barIndex lowered by d and the same price, type and time
ShiftedBy(points, shifted, d, w) ==
    \A n \in 1..Len(points) :
        points[n].barIndex - d >= w =>
            \E m \in 1..Len(shifted) :
                shifted[m] = SwingPoint(points[n].barIndex - d, points[n].price,
                                        points[n].type, points[n].time)

\* C25 (barIndex is slice-relative): every returned point has 0 <= barIndex
\* < len, the high (zone high), low (zone low) or close (ray) of
\* candles[barIndex] as price and that candle's timestamp in Unix seconds
\* as time; dropping the first d candles (d up to MaxLen) lowers the
\* barIndex of every raw pivot that remains detectable
\* (k - d >= sensitivity) by exactly d and keeps its price and time.
SliceRelative ==
    ZoneReturned =>
        /\ PointsOfCandles(returned.swingHighs, ohlcData, "high")
        /\ PointsOfCandles(returned.swingLows, ohlcData, "low")
        /\ PointsOfCandles(swingHighs, ohlcData, "high")
        /\ PointsOfCandles(swingLows, ohlcData, "low")
        /\ \A w \in 0..MaxSensitivity :
              LET whole == RaysFor(w)
              IN  /\ PointsOfCandles(whole.rayHighs, ohlcData, "close")
                  /\ PointsOfCandles(whole.rayLows, ohlcData, "close")
        /\ LET whole == RaysFor(Sensitivity)
           IN  \A d \in 0..Smaller(Len(ohlcData), MaxLen) :
                   LET rest == DropFirst(ohlcData, d)
                       zone == RawZone(rest, settings)
                       rays == RawRays(rest, RaySettingsLikeZone)
                   IN  /\ ShiftedBy(swingHighs, zone.swingHighs, d, Sensitivity)
                       /\ ShiftedBy(swingLows, zone.swingLows, d, Sensitivity)
                       /\ ShiftedBy(whole.rayHighs, rays.rayHighs, d, Sensitivity)
                       /\ ShiftedBy(whole.rayLows, rays.rayLows, d, Sensitivity)

\* a call with windows of at least one bar whose list has a swing high
\* that stays detectable when the first candle is dropped
SliceRelativeWitness ==
    /\ ZoneReturned /\ ShowHighs /\ Sensitivity >= 1
    /\ \E n \in 1..Len(swingHighs) : swingHighs[n].barIndex - 1 >= Sensitivity

(* ---------------------------------------------------------------------- *)
(* C26                                                                     *)
(* ---------------------------------------------------------------------- *)
\* the first n candles
FirstCandles(data, n) == SubSeq(data, 1, n)

IsPrefix(short, long) ==
    Len(short) <= Len(long) /\ SubSeq(long, 1, Len(short)) = short

\* the settings of the call with a cap that keeps every pivot of the
\* candles
Uncapped == With(settings, "maxSwingPoints", Len(ohlcData) + 1)

\* C26 (no repainting): if candles B extend candles A by bars appended at
\* the end, then with the same sensitivity the un-capped swing-high and
\* swing-low lists computed on A are a prefix of those computed on B (same
\* barIndex, price and time); a pivot once reported is never withdrawn or
\* altered by later bars.
NoRepainting ==
    ZoneReturned =>
        \A n \in 0..Len(ohlcData) :
            LET earlier == calculateSwingZone(FirstCandles(ohlcData, n), Uncapped)
            IN  /\ IsPrefix(earlier.swingHighs, swingHighs)
                /\ IsPrefix(earlier.swingLows, swingLows)

\* a call with windows of at least one bar on candles whose first bars
\* already give a swing high, with a later high above that one
NoRepaintingWitness ==
    /\ ZoneReturned /\ ShowHighs /\ Sensitivity >= 1
    /\ \E n \in 1..(Len(ohlcData) - 1) :
          LET earlier == calculateSwingZone(FirstCandles(ohlcData, n), Uncapped).swingHighs
          IN  /\ earlier # <<>>
              /\ \E k \in (n + 1)..Len(ohlcData) : Highs[k] > earlier[Len(earlier)].price

(* ---------------------------------------------------------------------- *)
(* C27                                                                     *)
(* ---------------------------------------------------------------------- *)
\* any two distinct points of the list are more than w bars apart
SpacedBy(points, w) ==
    \A a, b \in 1..Len(points) :
        a # b => \/ points[a].barIndex - points[b].barIndex > w
                 \/ points[b].barIndex - points[a].barIndex > w

\* C27 (minimum spacing): for sensitivity s >= 1, any two distinct points
\* of the same returned list (two swing highs, two swing lows, two ray
\* highs or two ray lows) have barIndex values that differ by more than s.
MinimumSpacing ==
    /\ (ZoneReturned /\ Sensitivity >= 1) =>
          /\ SpacedBy(returned.swingHighs, Sensitivity)
          /\ SpacedBy(returned.swingLows, Sensitivity)
          /\ SpacedBy(swingHighs, Sensitivity) /\ SpacedBy(swingLows, Sensitivity)
          /\ \A w \in 1..MaxSensitivity :
                LET whole == RaysFor(w)
                IN  \A n \in 0..MaxCap :
                        LET c == With(settings, "numRaysToShow", n)
                        IN  /\ SpacedBy(LimitRays(whole.rayHighs, c), w)
                            /\ SpacedBy(LimitRays(whole.rayLows, c), w)
    /\ (RaysReturned /\ RaysEnabled /\ RaySensitivity >= 1) =>
          /\ SpacedBy(returned.rayHighs, RaySensitivity)
          /\ SpacedBy(returned.rayLows, RaySensitivity)

\* a call with windows of at least one bar has returned two swing highs
\* exactly sensitivity + 1 bars apart
MinimumSpacingWitness ==
    /\ ZoneReturned /\ Sensitivity >= 1
    /\ \E a, b \in 1..Len(returned.swingHighs) :
          returned.swingHighs[b].barIndex - returned.swingHighs[a].barIndex = Sensitivity + 1

(* ---------------------------------------------------------------------- *)
(* C28                                                                     *)
(* ---------------------------------------------------------------------- *)
\* the settings with one key set to each value of a set, and omitted
KeyVariants(configs, key, values) ==
    {With(c, key, v) : c \in configs, v \in values} \cup {Without(c, key) : c \in configs}

\* the settings with every combination of the three ray keys, the window
\* and the cap each zero, large or omitted
RayKeyVariants(config) ==
    KeyVariants(KeyVariants(KeyVariants({config}, "enableRays", BOOLEAN),
                            "raySensitivity", {0, MaxSensitivity}),
                "numRaysToShow", {0, MaxCap})

\* the settings with every combination of the zone window (zero, large or
\* omitted), the regime switch, a short or omitted fast average and a long
\* or omitted slow average
ZoneKeyVariants(config) ==
    KeyVariants(KeyVariants(KeyVariants(KeyVariants({config}, "sensitivity", {0, MaxSensitivity}),
                                        "showRegime", BOOLEAN),
                            "fastMALength", {1}),
                "slowMALength", {MaxMALength})

\* C28: zone and ray settings do not leak into each other: the result of
\* calculateSwingZone is the same for every value of enableRays,
\* raySensitivity and numRaysToShow, and the result of calculateSwingRays
\* is the same for every value of sensitivity, showRegime, fastMALength and
\* slowMALength.
\* (the variants are compared before the first call; every call returns
\* the value of the settings it was given)
NoLeakBetweenZoneAndRays ==
    /\ (pc = "idle" /\ returned.fn = "none") =>
          /\ \A c \in RayKeyVariants(settings) :
                calculateSwingZone(ohlcData, c) = calculateSwingZone(ohlcData, settings)
          /\ \A c \in ZoneKeyVariants(settings) :
                calculateSwingRays(ohlcData, c) = calculateSwingRays(ohlcData, settings)
    /\ ZoneReturned => ZoneResult = calculateSwingZone(ohlcData, settings)
    /\ RaysReturned => RaysResult = calculateSwingRays(ohlcData, settings)

\* both functions have returned a swing high on the same candles
NoLeakBetweenZoneAndRaysWitness ==
    /\ Len(history) >= 2 /\ Sensitivity >= 1
    /\ history[1].fn = "calculateSwingZone" /\ history[1].swingHighs # <<>>
    /\ history[1].regime # <<>>
    /\ history[2].fn = "calculateSwingRays" /\ history[2].rayHighs # <<>>

(* ---------------------------------------------------------------------- *)
(* C29                                                                     *)
(* ---------------------------------------------------------------------- *)
\* C29 (showRegime false disables only the regime): with showRegime false
\* calculateSwingZone returns regime undefined for every series, and it
\* returns the same swingHighs and swingLows whether showRegime is true,
\* false or omitted.
RegimeSwitchOnlyHidesRegime ==
    ZoneReturned =>
        /\ ~ShowRegime => returned.regime = <<>>
        /\ \A c \in FlagVariants(settings, "showRegime") :
              LET other == calculateSwingZone(ohlcData, c)
              IN  /\ other.swingHighs = returned.swingHighs
                  /\ other.swingLows = returned.swingLows
                  /\ ~Get(c, "showRegime", TRUE) => other.regime = <<>>

\* a call with the regime hidden that returns a swing high and a swing
\* low, on closes that have a regime when it is shown
RegimeSwitchOnlyHidesRegimeWitness ==
    /\ ZoneReturned /\ ~ShowRegime
    /\ returned.swingHighs # <<>> /\ returned.swingLows # <<>>
    /\ returned.regime = <<>>
    /\ calculateSwingZone(ohlcData, With(settings, "showRegime", TRUE)).regime # <<>>

====
